---- MODULE Spec2Model ----
(***************************************************************************)
(* agent-deck: the CLI handlers (cmd/agent-deck/main.go) and the snapshot  *)
(* storage (internal/session/storage.go), as a state machine over the      *)
(* files of the storage directory, the sessions of the multiplexer host    *)
(* and the agent-deck processes running against them.                      *)
(*                                                                         *)
(* Strings are sequences of one-character strings, so that prefixes, path  *)
(* segments and tilde expansion are computed, not tabulated.               *)
(***************************************************************************)
EXTENDS Integers, Sequences, FiniteSets, TLC

VARIABLES files, dirs, sessions, tmuxInPath, clock, nextID, proc

vars == <<files, dirs, sessions, tmuxInPath, clock, nextID, proc>>

\* ------------------------------------------------------------------ bounds

\* No mutating command is admitted once the clock has reached MaxClock.
MaxClock == 4

\* ----------------------------------------------------------------- strings

Empty == <<>>

HasPrefix(s, prefix) ==
    /\ Len(prefix) <= Len(s)
    /\ SubSeq(s, 1, Len(prefix)) = prefix

\* Index of the last "/" of s, 0 when there is none.
LastSlash(s) ==
    LET at == {i \in 1..Len(s) : s[i] = "/"}
    IN  IF at = {} THEN 0 ELSE CHOOSE i \in at : \A j \in at : j <= i

\* filepath.Base on a cleaned path: the last element.
Base(path) == SubSeq(path, LastSlash(path) + 1, Len(path))

\* filepath.Dir on a cleaned path: all but the last element.
Dir(path) ==
    LET k == LastSlash(path)
    IN  IF k = 0 THEN <<".">> ELSE IF k = 1 THEN <<"/">> ELSE SubSeq(path, 1, k - 1)

HomeDir == <<"/", "h">>
Cwd == <<"/", "w">>

\* filepath.Join(home, rest) for a cleaned rest.
Join(a, b) == a \o <<"/">> \o b

expandTilde(path) ==
    IF HasPrefix(path, <<"~", "/">>)
    THEN Join(HomeDir, SubSeq(path, 3, Len(path)))
    ELSE path

\* filepath.Abs: a relative path is joined to the working directory.
Abs(path) ==
    IF Len(path) > 0 /\ path[1] = "/" THEN path ELSE Join(Cwd, path)

\* The directories that exist on the machine (os.Stat(path), info.IsDir()).
ExistingDirs ==
    { <<"/", "w">>, <<"/", "w", "/", "p">>, <<"/", "v", "/", "p">>,
      <<"/", "h", "/", "p">> }

\* -------------------------------------------------------------- data model

StatusRunning == "running"
StatusWaiting == "waiting"
StatusIdle == "idle"
StatusError == "error"
Statuses == {StatusRunning, StatusWaiting, StatusIdle, StatusError}

\* statusToString, had it handed the status over under its own name.
statusToStringVerbatim(s) == s

statusToString(s) ==
    CASE s = StatusRunning -> "active"
      [] s = StatusWaiting -> "waiting"
      [] s = StatusIdle -> "idle"
      [] s = StatusError -> "waiting"
      [] OTHER -> "waiting"

mergeFlags(long, short) == IF long # Empty THEN long ELSE short

Contains(s, sub) ==
    \E i \in 1..(Len(s) + 1) : HasPrefix(SubSeq(s, i, Len(s)), sub)

\* detectTool; the commands of the model are lower case already.
detectTool(cmd) ==
    CASE Contains(cmd, <<"c", "l", "a", "u", "d", "e">>) -> "claude"
      [] Contains(cmd, <<"a", "i", "d", "e", "r">>) -> "aider"
      [] Contains(cmd, <<"g", "e", "m", "i", "n", "i">>) -> "gemini"
      [] Contains(cmd, <<"c", "o", "d", "e", "x">>) -> "codex"
      [] Contains(cmd, <<"c", "u", "r", "s", "o", "r">>) -> "cursor"
      [] OTHER -> "shell"

\* An instance's handle on its multiplexer session: nil, or a session object
\* holding the session's name and the status handed to it at reconnect.
NoSession == [present |-> FALSE, Name |-> Empty, previous |-> ""]
Session(name, previous) == [present |-> TRUE, Name |-> name, previous |-> previous]

\* --------------------------------------------------------- the snapshot file

NoFile == [exists |-> FALSE, content |-> <<>>]
File(c) == [exists |-> TRUE, content |-> c]

TokOpen == [t |-> "{"]
TokClose == [t |-> "}"]
TokInst(d) == [t |-> "inst", v |-> d]
TokGroup(g) == [t |-> "group", v |-> g]
TokUpdated(at) == [t |-> "updated_at", v |-> at]

\* json.MarshalIndent(data): the document as a sequence of tokens.
Marshal(data) ==
    <<TokOpen>>
    \o [i \in 1..Len(data.Instances) |-> TokInst(data.Instances[i])]
    \o [i \in 1..Len(data.Groups) |-> TokGroup(data.Groups[i])]
    \o <<TokUpdated(data.UpdatedAt), TokClose>>

Rank(tok) ==
    CASE tok.t = "inst" -> 1
      [] tok.t = "group" -> 2
      [] tok.t = "updated_at" -> 3
      [] OTHER -> 0

\* json.Unmarshal succeeds: one complete document and nothing after it.
Parses(c) ==
    /\ Len(c) >= 2
    /\ c[1] = TokOpen
    /\ c[Len(c)] = TokClose
    /\ \A i \in 2..(Len(c) - 1) : Rank(c[i]) > 0
    /\ \A i, j \in 2..(Len(c) - 1) : i < j => Rank(c[i]) <= Rank(c[j])
    /\ Cardinality({i \in 2..(Len(c) - 1) : Rank(c[i]) = 3}) <= 1

IsInst(tok) == tok.t = "inst"
IsGroup(tok) == tok.t = "group"
Values(toks) == [i \in 1..Len(toks) |-> toks[i].v]

\* json.Unmarshal(jsonData, &data) of a document that parses.
Unmarshal(c) ==
    LET at == {i \in 1..Len(c) : Rank(c[i]) = 3}
    IN  [Instances |-> Values(SelectSeq(c, IsInst)),
         Groups |-> Values(SelectSeq(c, IsGroup)),
         UpdatedAt |-> IF at = {} THEN 0 ELSE c[CHOOSE i \in at : TRUE].v]

\* write(2) of data at offset 0 of a file holding old: what lies beyond the
\* written bytes stays.
Overlay(old, data) ==
    IF Len(data) >= Len(old) THEN data
    ELSE data \o SubSeq(old, Len(data) + 1, Len(old))

\* ------------------------------------------------- instances and group tree

\* The n-th identifier the generator hands out: a1, a2, b3, a4, a5, b6, ...
\* (two identifiers may share a prefix, none is a prefix of another).
Digits == <<"1", "2", "3", "4", "5", "6", "7", "8", "9">>
GenID(n) == <<IF n % 3 = 0 THEN "b" ELSE "a", Digits[((n - 1) % 9) + 1]>>

\* The name of the multiplexer session of the instance with identifier id:
\* the fixed prefix, then a unique part.
SessionName(id) == <<"d", "_">> \o id

\* The parent segment of a project path.
extractGroupPath(projectPath) == Base(Dir(projectPath))

NewInstance(title, projectPath, n, now) ==
    [ID |-> GenID(n),
     Title |-> title,
     ProjectPath |-> projectPath,
     GroupPath |-> extractGroupPath(projectPath),
     Command |-> Empty,
     Tool |-> "shell",
     Status |-> StatusIdle,
     CreatedAt |-> now,
     tmuxSession |-> Session(SessionName(GenID(n)), "")]

NewInstanceWithGroup(title, projectPath, groupPath, n, now) ==
    [NewInstance(title, projectPath, n, now) EXCEPT !.GroupPath = groupPath]

HasGroup(list, path) == \E i \in 1..Len(list) : list[i].Path = path

\* The ancestors of a group path, outermost first, then the path itself.
RECURSIVE PathChain(_)
PathChain(path) ==
    IF LastSlash(path) = 0 THEN <<path>>
    ELSE PathChain(SubSeq(path, 1, LastSlash(path) - 1)) \o <<path>>

RECURSIVE AppendMissing(_, _)
AppendMissing(list, paths) ==
    IF paths = <<>> THEN list
    ELSE LET path == Head(paths)
             next == IF path = Empty \/ HasGroup(list, path) THEN list
                     ELSE Append(list, [Name |-> Base(path), Path |-> path,
                                        Expanded |-> TRUE, Order |-> Len(list)])
         IN  AppendMissing(next, Tail(paths))

\* GroupTree.CreateGroup: idempotent, missing ancestors are created too.
CreateGroup(list, path) == AppendMissing(list, PathChain(path))

RECURSIVE SynthesizeGroups(_, _)
SynthesizeGroups(list, instances) ==
    IF instances = <<>> THEN list
    ELSE SynthesizeGroups(
             IF Head(instances).GroupPath = Empty THEN list
             ELSE CreateGroup(list, Head(instances).GroupPath),
             Tail(instances))

\* session.NewGroupTreeWithGroups: the persisted groups, then a synthesized
\* group for every group path an instance names and the list lacks.
NewGroupTreeWithGroups(instances, groups) == SynthesizeGroups(groups, instances)

\* Instance.Exists: the instance holds a session and the host has it.
Exists(inst) == inst.tmuxSession.present /\ inst.tmuxSession.Name \in sessions

\* Instance.Kill: the host's session of that name is gone afterwards.
Kill(inst) == sessions \ {inst.tmuxSession.Name}

\* What one detector pass (Instance.UpdateStatus) may leave in Status: error
\* for a session the host does not have, else whatever the pane shows.
UpdateStatus(inst) ==
    IF inst.tmuxSession.Name \in sessions THEN Statuses ELSE {StatusError}

\* ------------------------------------------------------------------ storage

DefaultDir == "~/.agent-deck"
ProfileDir == "~/.agent-deck/profiles/test"
StorageDirs == {DefaultDir, ProfileDir}

\* The values of the environment's profile selector: unset, or a profile.
Profiles == {"", "test"}

\* GetStoragePath: the directory of sessions.json.
GetStoragePath(profile) == DefaultDir

\* SaveWithGroups, lines 86-120: the serializable form of the snapshot.
ToInstanceData(inst) ==
    [ID |-> inst.ID,
     Title |-> inst.Title,
     ProjectPath |-> inst.ProjectPath,
     GroupPath |-> inst.GroupPath,
     Command |-> inst.Command,
     Tool |-> inst.Tool,
     Status |-> inst.Status,
     CreatedAt |-> inst.CreatedAt,
     TmuxSession |-> IF inst.tmuxSession.present THEN inst.tmuxSession.Name ELSE Empty]

ToStorageData(instances, groupTree, now) ==
    [Instances |-> [i \in 1..Len(instances) |-> ToInstanceData(instances[i])],
     Groups |-> groupTree,
     UpdatedAt |-> now]

\* FromInstanceData, had it left the launch command behind.
FromInstanceDataNoCommand(d, status) ==
    [ID |-> d.ID,
     Title |-> d.Title,
     ProjectPath |-> expandTilde(d.ProjectPath),
     GroupPath |-> IF d.GroupPath = Empty THEN extractGroupPath(d.ProjectPath)
                   ELSE d.GroupPath,
     Command |-> Empty,
     Tool |-> d.Tool,
     Status |-> IF d.TmuxSession # Empty THEN status ELSE d.Status,
     CreatedAt |-> d.CreatedAt,
     tmuxSession |-> IF d.TmuxSession # Empty
                     THEN Session(d.TmuxSession, statusToString(d.Status))
                     ELSE NoSession]

\* FromInstanceData, had it kept the persisted status of an instance with a
\* session instead of the status the detector pass left.
FromInstanceDataKeepsStatus(d, status) ==
    [ID |-> d.ID,
     Title |-> d.Title,
     ProjectPath |-> expandTilde(d.ProjectPath),
     GroupPath |-> IF d.GroupPath = Empty THEN extractGroupPath(d.ProjectPath)
                   ELSE d.GroupPath,
     Command |-> d.Command,
     Tool |-> d.Tool,
     Status |-> d.Status,
     CreatedAt |-> d.CreatedAt,
     tmuxSession |-> IF d.TmuxSession # Empty
                     THEN Session(d.TmuxSession, statusToString(d.Status))
                     ELSE NoSession]

\* FromInstanceData, had it left a record without a group path as it is.
FromInstanceDataNoMigration(d, status) ==
    [ID |-> d.ID,
     Title |-> d.Title,
     ProjectPath |-> expandTilde(d.ProjectPath),
     GroupPath |-> d.GroupPath,
     Command |-> d.Command,
     Tool |-> d.Tool,
     Status |-> IF d.TmuxSession # Empty THEN status ELSE d.Status,
     CreatedAt |-> d.CreatedAt,
     tmuxSession |-> IF d.TmuxSession # Empty
                     THEN Session(d.TmuxSession, statusToString(d.Status))
                     ELSE NoSession]

\* LoadWithGroups, lines 197-244: one persisted record back to an instance
\* whose detector pass, if it has a session, left status.
FromInstanceData(d, status) ==
    [ID |-> d.ID,
     Title |-> d.Title,
     ProjectPath |-> expandTilde(d.ProjectPath),
     GroupPath |-> IF d.GroupPath = Empty THEN extractGroupPath(d.ProjectPath)
                   ELSE d.GroupPath,
     Command |-> d.Command,
     Tool |-> d.Tool,
     Status |-> IF d.TmuxSession # Empty THEN status ELSE d.Status,
     CreatedAt |-> d.CreatedAt,
     tmuxSession |-> IF d.TmuxSession # Empty
                     THEN Session(d.TmuxSession, statusToString(d.Status))
                     ELSE NoSession]

\* The statuses load may hand out for a persisted record.
LoadStatuses(d) ==
    IF d.TmuxSession # Empty
    THEN UpdateStatus([tmuxSession |-> Session(d.TmuxSession, "")])
    ELSE {d.Status}

\* The instance lists LoadWithGroups may return for the parsed data.
LoadedInstances(data) ==
    LET n == Len(data.Instances)
        all == UNION {LoadStatuses(data.Instances[i]) : i \in 1..n}
    IN  { [i \in 1..n |-> FromInstanceData(data.Instances[i], st[i])] :
            st \in {f \in [1..n -> all] :
                      \A i \in 1..n : f[i] \in LoadStatuses(data.Instances[i])} }

\* One call on the session of the i-th instance of the list, as the process
\* issues it: the operation, the session's name, and the prior status when
\* the operation is the reconnect.
GatewayCall(op, i, name, arg) == [op |-> op, at |-> i, name |-> name, arg |-> arg]

\* LoadWithGroups, lines 201-214 and 239-241: the calls it makes for the
\* i-th record: with a session name, reconnect, then mouse mode, then one
\* status update; without one, none.
RecordCalls(d, i) ==
    IF d.TmuxSession # Empty
    THEN << GatewayCall("ReconnectSessionWithStatus", i, d.TmuxSession,
                        statusToString(d.Status)),
            GatewayCall("EnableMouseMode", i, d.TmuxSession, ""),
            GatewayCall("UpdateStatus", i, d.TmuxSession, "") >>
    ELSE <<>>

\* LoadWithGroups, lines 197-244: the calls of the whole loop, from the
\* i-th record on.
RECURSIVE LoadCalls(_, _)
LoadCalls(records, i) ==
    IF i > Len(records) THEN <<>>
    ELSE RecordCalls(records[i], i) \o LoadCalls(records, i + 1)

\* ---------------------------------------------------------------- processes

Procs == {1, 2}

\* The command lines of the model.
AddReq(path, title, group, command) ==
    [cmd |-> "add", path |-> path, title |-> title, group |-> group,
     command |-> command]
ListReq == [cmd |-> "list"]
RemoveReq(identifier) == [cmd |-> "remove", identifier |-> identifier]

AddRequests ==
    { AddReq(<<"p">>, Empty, Empty, Empty),
      AddReq(<<"/", "v", "/", "p">>, Empty, <<"g", "/", "s">>, <<"c", "l", "a", "u", "d", "e">>),
      AddReq(<<"/", "h", "/", "p">>, <<"x">>, Empty, Empty),
      AddReq(<<"/", "w", "/", "n">>, Empty, Empty, Empty),
      AddReq(Empty, Empty, Empty, Empty) }

RemoveRequests ==
    { RemoveReq(<<"a">>), RemoveReq(<<"a", "1">>), RemoveReq(<<"p">>),
      RemoveReq(<<"z">>), RemoveReq(Empty) }

Requests == AddRequests \cup {ListReq} \cup RemoveRequests

NoReq == [cmd |-> "none"]

IdleProc ==
    [pc |-> "idle", req |-> NoReq, profile |-> "", storage |-> "",
     path |-> Empty, title |-> Empty,
     instances |-> <<>>, groups |-> <<>>, err |-> "",
     idx |-> 0, found |-> FALSE, removedTitle |-> Empty,
     newInstance |-> <<>>, newInstances |-> <<>>, groupTree |-> <<>>,
     json |-> <<>>, buf |-> <<>>, fd |-> "none", calls |-> <<>>,
     exit |-> -1, msg |-> ""]

\* os.Exit(code) after printing msg: the process is over, its memory and
\* its descriptors are gone; what it printed and its exit code remain.
Exit(me, code, msg) == [IdleProc EXCEPT !.pc = "done", !.exit = code, !.msg = msg]

\* A snapshot file from an older schema: no group path, a tilde path, no
\* session.
LegacyInstance ==
    [ID |-> <<"b", "0">>, Title |-> <<"p">>, ProjectPath |-> <<"~", "/", "p">>,
     GroupPath |-> Empty, Command |-> Empty, Tool |-> "shell",
     Status |-> StatusWaiting, CreatedAt |-> 0, TmuxSession |-> Empty]
LegacyFile ==
    File(Marshal([Instances |-> <<LegacyInstance>>, Groups |-> <<>>, UpdatedAt |-> 0]))

\* The status of a record that has no "status" key: json.Unmarshal leaves
\* the field at the zero value of its type, the empty string.
UnsetStatus == ""

\* A snapshot file written by hand or by another version of the program: its
\* record has no status key and names no session.
ForeignInstances == << [LegacyInstance EXCEPT !.Status = UnsetStatus] >>
ForeignFile ==
    File(Marshal([Instances |-> ForeignInstances, Groups |-> <<>>, UpdatedAt |-> 0]))

\* A snapshot file cut short.
TruncatedFile == File(<<TokOpen>>)

NoFiles == [path |-> NoFile, tmp |-> NoFile, bak |-> NoFile]

\* What the storage directory may hold when the first command runs: nothing
\* (a fresh install), a legacy snapshot, or a snapshot cut short beside the
\* backup of the one before it.
InitialFiles ==
    { NoFiles,
      [NoFiles EXCEPT !.path = LegacyFile],
      [NoFiles EXCEPT !.path = TruncatedFile, !.bak = LegacyFile] }

Init ==
    /\ \E f \in InitialFiles :
         files = [d \in StorageDirs |-> IF d = DefaultDir THEN f ELSE NoFiles]
    /\ dirs = {}
    /\ sessions = {}
    /\ tmuxInPath = TRUE
    /\ clock = 1
    /\ nextID = 1
    /\ proc = [p \in Procs |-> IdleProc]

\* main -> handleAdd, lines 63-145: arguments, then NewStorage.
StartAdd(p, req, profile, mkdirOk) ==
    LET me == [IdleProc EXCEPT !.req = req, !.profile = profile]
        path == IF req.path = <<".">> THEN Cwd ELSE Abs(req.path)
        sessionTitle == IF req.title = Empty THEN Base(path) ELSE req.title
    IN  /\ clock < MaxClock
        /\ IF req.path = Empty
           THEN /\ proc' = [proc EXCEPT ![p] = Exit(me, 1, "path is required")]
                /\ UNCHANGED dirs
           ELSE IF path \notin ExistingDirs
           THEN /\ proc' = [proc EXCEPT ![p] = Exit(me, 1, "path does not exist")]
                /\ UNCHANGED dirs
           ELSE IF ~mkdirOk
           THEN /\ proc' = [proc EXCEPT ![p] = Exit(me, 1, "failed to initialize storage")]
                /\ UNCHANGED dirs
           ELSE /\ proc' = [proc EXCEPT ![p] =
                      [me EXCEPT !.pc = "load", !.path = path, !.title = sessionTitle,
                                 !.storage = GetStoragePath(profile)]]
                /\ dirs' = dirs \cup {GetStoragePath(profile)}
        /\ UNCHANGED <<files, sessions, tmuxInPath, clock, nextID>>

\* main -> handleList, lines 201-222.
StartList(p, profile, mkdirOk) ==
    LET me == [IdleProc EXCEPT !.req = ListReq, !.profile = profile]
    IN  /\ IF ~mkdirOk
           THEN /\ proc' = [proc EXCEPT ![p] = Exit(me, 1, "failed to initialize storage")]
                /\ UNCHANGED dirs
           ELSE /\ proc' = [proc EXCEPT ![p] =
                      [me EXCEPT !.pc = "load", !.storage = GetStoragePath(profile)]]
                /\ dirs' = dirs \cup {GetStoragePath(profile)}
        /\ UNCHANGED <<files, sessions, tmuxInPath, clock, nextID>>

\* main -> handleRemove, lines 276-303.
StartRemove(p, req, profile, mkdirOk) ==
    LET me == [IdleProc EXCEPT !.req = req, !.profile = profile]
    IN  /\ clock < MaxClock
        /\ IF req.identifier = Empty
           THEN /\ proc' = [proc EXCEPT ![p] = Exit(me, 1, "session ID or title is required")]
                /\ UNCHANGED dirs
           ELSE IF ~mkdirOk
           THEN /\ proc' = [proc EXCEPT ![p] = Exit(me, 1, "failed to initialize storage")]
                /\ UNCHANGED dirs
           ELSE /\ proc' = [proc EXCEPT ![p] =
                      [me EXCEPT !.pc = "load", !.storage = GetStoragePath(profile)]]
                /\ dirs' = dirs \cup {GetStoragePath(profile)}
        /\ UNCHANGED <<files, sessions, tmuxInPath, clock, nextID>>

\* A command line is run as process p.
Start(p) ==
    /\ proc[p].pc \in {"idle", "done"}
    /\ \E profile \in Profiles, mkdirOk \in BOOLEAN :
         \/ \E req \in AddRequests : StartAdd(p, req, profile, mkdirOk)
         \/ StartList(p, profile, mkdirOk)
         \/ \E req \in RemoveRequests : StartRemove(p, req, profile, mkdirOk)

\* LoadWithGroups, had it taken a missing file for a read error.
LoadWithGroupsMissingIsError(p) ==
    LET me == proc[p]
        f == files[me.storage].path
    IN  /\ me.pc = "load"
        /\ \/ /\ proc' = [proc EXCEPT ![p] =
                    [me EXCEPT !.pc = "loaded", !.err = "failed to read file"]]
           \/ /\ f.exists
              /\ ~Parses(f.content)
              /\ proc' = [proc EXCEPT ![p] =
                    [me EXCEPT !.pc = "loaded", !.err = "failed to unmarshal JSON"]]
           \/ /\ f.exists
              /\ Parses(f.content)
              /\ \E instances \in LoadedInstances(Unmarshal(f.content)) :
                   proc' = [proc EXCEPT ![p] =
                      [me EXCEPT !.pc = "loaded", !.instances = instances,
                                 !.groups = Unmarshal(f.content).Groups, !.err = ""]]
        /\ UNCHANGED <<files, dirs, sessions, tmuxInPath, clock, nextID>>

\* LoadWithGroups, had it read the backup when the canonical file does not
\* parse.
LoadWithGroupsFromBackup(p) ==
    LET me == proc[p]
        f == files[me.storage].path
        b == files[me.storage].bak
        g == IF f.exists /\ ~Parses(f.content) /\ b.exists THEN b ELSE f
    IN  /\ me.pc = "load"
        /\ \/ /\ ~g.exists
              /\ proc' = [proc EXCEPT ![p] =
                    [me EXCEPT !.pc = "loaded", !.instances = <<>>, !.groups = <<>>,
                               !.err = ""]]
           \/ /\ g.exists
              /\ proc' = [proc EXCEPT ![p] =
                    [me EXCEPT !.pc = "loaded", !.err = "failed to read file"]]
           \/ /\ g.exists
              /\ ~Parses(g.content)
              /\ proc' = [proc EXCEPT ![p] =
                    [me EXCEPT !.pc = "loaded", !.err = "failed to unmarshal JSON"]]
           \/ /\ g.exists
              /\ Parses(g.content)
              /\ \E instances \in LoadedInstances(Unmarshal(g.content)) :
                   proc' = [proc EXCEPT ![p] =
                      [me EXCEPT !.pc = "loaded", !.instances = instances,
                                 !.groups = Unmarshal(g.content).Groups, !.err = ""]]
        /\ UNCHANGED <<files, dirs, sessions, tmuxInPath, clock, nextID>>

\* Storage.LoadWithGroups, as called by the three handlers.
LoadWithGroups(p) ==
    LET me == proc[p]
        f == files[me.storage].path
    IN  /\ me.pc = "load"
        /\ \/ /\ ~f.exists
              /\ proc' = [proc EXCEPT ![p] =
                    [me EXCEPT !.pc = "loaded", !.instances = <<>>, !.groups = <<>>,
                               !.err = ""]]
           \/ /\ f.exists
              /\ proc' = [proc EXCEPT ![p] =
                    [me EXCEPT !.pc = "loaded", !.err = "failed to read file"]]
           \/ /\ f.exists
              /\ ~Parses(f.content)
              /\ proc' = [proc EXCEPT ![p] =
                    [me EXCEPT !.pc = "loaded", !.err = "failed to unmarshal JSON"]]
           \/ /\ f.exists
              /\ Parses(f.content)
              /\ \E instances \in LoadedInstances(Unmarshal(f.content)) :
                   proc' = [proc EXCEPT ![p] =
                      [me EXCEPT !.pc = "loaded", !.instances = instances,
                                 !.groups = Unmarshal(f.content).Groups, !.err = "",
                                 !.calls = LoadCalls(Unmarshal(f.content).Instances, 1)]]
        /\ UNCHANGED <<files, dirs, sessions, tmuxInPath, clock, nextID>>


\* AddLoaded, had it skipped the check for an instance at the same path.
AddLoadedNoDuplicateCheck(p) ==
    LET me == proc[p]
        req == me.req
        created == IF req.group # Empty
                   THEN NewInstanceWithGroup(me.title, me.path, req.group, nextID, clock)
                   ELSE NewInstance(me.title, me.path, nextID, clock)
        newInstance == IF req.command # Empty
                       THEN [created EXCEPT !.Command = req.command,
                                            !.Tool = detectTool(req.command)]
                       ELSE created
        instances == Append(me.instances, newInstance)
        rebuilt == NewGroupTreeWithGroups(instances, me.groups)
        groupTree == IF newInstance.GroupPath # Empty
                     THEN CreateGroup(rebuilt, newInstance.GroupPath)
                     ELSE rebuilt
    IN  /\ me.pc = "loaded"
        /\ req.cmd = "add"
        /\ IF me.err # ""
           THEN /\ proc' = [proc EXCEPT ![p] = Exit(me, 1, "failed to load sessions")]
                /\ UNCHANGED <<clock, nextID>>
           ELSE /\ proc' = [proc EXCEPT ![p] =
                      [me EXCEPT !.pc = "sv_open",
                                 !.newInstance = <<newInstance>>,
                                 !.instances = instances,
                                 !.newInstances = instances,
                                 !.groupTree = groupTree,
                                 !.json = Marshal(ToStorageData(instances, groupTree, clock + 1))]]
                /\ clock' = clock + 2
                /\ nextID' = nextID + 1
        /\ UNCHANGED <<files, dirs, sessions, tmuxInPath>>

\* AddLoaded, had it saved the groups as loaded, without rebuilding the tree.
AddLoadedSavesLoadedGroups(p) ==
    LET me == proc[p]
        req == me.req
        created == IF req.group # Empty
                   THEN NewInstanceWithGroup(me.title, me.path, req.group, nextID, clock)
                   ELSE NewInstance(me.title, me.path, nextID, clock)
        newInstance == IF req.command # Empty
                       THEN [created EXCEPT !.Command = req.command,
                                            !.Tool = detectTool(req.command)]
                       ELSE created
        instances == Append(me.instances, newInstance)
        groupTree == me.groups
    IN  /\ me.pc = "loaded"
        /\ req.cmd = "add"
        /\ IF me.err # ""
           THEN /\ proc' = [proc EXCEPT ![p] = Exit(me, 1, "failed to load sessions")]
                /\ UNCHANGED <<clock, nextID>>
           ELSE IF \E i \in 1..Len(me.instances) : me.instances[i].ProjectPath = me.path
           THEN /\ proc' = [proc EXCEPT ![p] = Exit(me, 0, "Session already exists")]
                /\ UNCHANGED <<clock, nextID>>
           ELSE /\ proc' = [proc EXCEPT ![p] =
                      [me EXCEPT !.pc = "sv_open",
                                 !.newInstance = <<newInstance>>,
                                 !.instances = instances,
                                 !.newInstances = instances,
                                 !.groupTree = groupTree,
                                 !.json = Marshal(ToStorageData(instances, groupTree, clock + 1))]]
                /\ clock' = clock + 2
                /\ nextID' = nextID + 1
        /\ UNCHANGED <<files, dirs, sessions, tmuxInPath>>

\* AddLoaded, had it looked for an instance at the path as given on the
\* command line instead of the absolute path.
AddLoadedComparesArgument(p) ==
    LET me == proc[p]
        req == me.req
        created == IF req.group # Empty
                   THEN NewInstanceWithGroup(me.title, me.path, req.group, nextID, clock)
                   ELSE NewInstance(me.title, me.path, nextID, clock)
        newInstance == IF req.command # Empty
                       THEN [created EXCEPT !.Command = req.command,
                                            !.Tool = detectTool(req.command)]
                       ELSE created
        instances == Append(me.instances, newInstance)
        rebuilt == NewGroupTreeWithGroups(instances, me.groups)
        groupTree == IF newInstance.GroupPath # Empty
                     THEN CreateGroup(rebuilt, newInstance.GroupPath)
                     ELSE rebuilt
    IN  /\ me.pc = "loaded"
        /\ req.cmd = "add"
        /\ IF me.err # ""
           THEN /\ proc' = [proc EXCEPT ![p] = Exit(me, 1, "failed to load sessions")]
                /\ UNCHANGED <<clock, nextID>>
           ELSE IF \E i \in 1..Len(me.instances) : me.instances[i].ProjectPath = req.path
           THEN /\ proc' = [proc EXCEPT ![p] = Exit(me, 0, "Session already exists")]
                /\ UNCHANGED <<clock, nextID>>
           ELSE /\ proc' = [proc EXCEPT ![p] =
                      [me EXCEPT !.pc = "sv_open",
                                 !.newInstance = <<newInstance>>,
                                 !.instances = instances,
                                 !.newInstances = instances,
                                 !.groupTree = groupTree,
                                 !.json = Marshal(ToStorageData(instances, groupTree, clock + 1))]]
                /\ clock' = clock + 2
                /\ nextID' = nextID + 1
        /\ UNCHANGED <<files, dirs, sessions, tmuxInPath>>

\* handleAdd, lines 147-186, up to the marshalled snapshot SaveWithGroups
\* is about to write (storage.go lines 86-126). newInstance is held as a
\* list of at most one instance.
AddLoaded(p) ==
    LET me == proc[p]
        req == me.req
        created == IF req.group # Empty
                   THEN NewInstanceWithGroup(me.title, me.path, req.group, nextID, clock)
                   ELSE NewInstance(me.title, me.path, nextID, clock)
        newInstance == IF req.command # Empty
                       THEN [created EXCEPT !.Command = req.command,
                                            !.Tool = detectTool(req.command)]
                       ELSE created
        instances == Append(me.instances, newInstance)
        rebuilt == NewGroupTreeWithGroups(instances, me.groups)
        groupTree == IF newInstance.GroupPath # Empty
                     THEN CreateGroup(rebuilt, newInstance.GroupPath)
                     ELSE rebuilt
    IN  /\ me.pc = "loaded"
        /\ req.cmd = "add"
        /\ IF me.err # ""
           THEN /\ proc' = [proc EXCEPT ![p] = Exit(me, 1, "failed to load sessions")]
                /\ UNCHANGED <<clock, nextID>>
           ELSE IF \E i \in 1..Len(me.instances) : me.instances[i].ProjectPath = me.path
           THEN /\ proc' = [proc EXCEPT ![p] = Exit(me, 0, "Session already exists")]
                /\ UNCHANGED <<clock, nextID>>
           ELSE /\ proc' = [proc EXCEPT ![p] =
                      [me EXCEPT !.pc = "sv_open",
                                 !.newInstance = <<newInstance>>,
                                 !.instances = instances,
                                 !.newInstances = instances,
                                 !.groupTree = groupTree,
                                 !.json = Marshal(ToStorageData(instances, groupTree, clock + 1))]]
                /\ clock' = clock + 2
                /\ nextID' = nextID + 1
        /\ UNCHANGED <<files, dirs, sessions, tmuxInPath>>

\* ListLoaded, had it written the refreshed statuses back before printing.
ListLoadedSaves(p) ==
    LET me == proc[p]
        groupTree == NewGroupTreeWithGroups(me.instances, me.groups)
    IN  /\ me.pc = "loaded"
        /\ me.req.cmd = "list"
        /\ proc' = [proc EXCEPT ![p] =
              IF me.err # "" THEN Exit(me, 1, "failed to load sessions")
              ELSE IF Len(me.instances) = 0 THEN Exit(me, 0, "No sessions found.")
              ELSE [me EXCEPT !.pc = "sv_open", !.newInstances = me.instances,
                              !.groupTree = groupTree,
                              !.json = Marshal(ToStorageData(me.instances, groupTree, clock))]]
        /\ UNCHANGED <<files, dirs, sessions, tmuxInPath, clock, nextID>>

\* handleList, lines 224-272.
ListLoaded(p) ==
    LET me == proc[p]
    IN  /\ me.pc = "loaded"
        /\ me.req.cmd = "list"
        /\ proc' = [proc EXCEPT ![p] =
              IF me.err # "" THEN Exit(me, 1, "failed to load sessions")
              ELSE IF Len(me.instances) = 0 THEN Exit(me, 0, "No sessions found.")
              ELSE Exit(me, 0, "Total")]
        /\ UNCHANGED <<files, dirs, sessions, tmuxInPath, clock, nextID>>

\* handleRemove, lines 305-314: the load's error, then the scan begins.
RemoveLoaded(p) ==
    LET me == proc[p]
    IN  /\ me.pc = "loaded"
        /\ me.req.cmd = "remove"
        /\ proc' = [proc EXCEPT ![p] =
              IF me.err # "" THEN Exit(me, 1, "failed to load sessions")
              ELSE [me EXCEPT !.pc = "rm_loop", !.idx = 1, !.found = FALSE,
                              !.newInstances = <<>>]]
        /\ UNCHANGED <<files, dirs, sessions, tmuxInPath, clock, nextID>>

\* handleRemove, line 316: the instance is the one the identifier names.
Matches(inst, identifier) ==
    \/ inst.ID = identifier
    \/ HasPrefix(inst.ID, identifier)
    \/ inst.Title = identifier

\* RemoveScan, had it killed the session of every instance it passes.
RemoveScanKillsAll(p) ==
    LET me == proc[p]
        inst == me.instances[me.idx]
    IN  /\ me.pc = "rm_loop"
        /\ me.idx <= Len(me.instances)
        /\ sessions' = IF Exists(inst) THEN Kill(inst) ELSE sessions
        /\ IF Matches(inst, me.req.identifier)
           THEN proc' = [proc EXCEPT ![p] =
                      [me EXCEPT !.idx = me.idx + 1, !.found = TRUE,
                                 !.removedTitle = inst.Title]]
           ELSE proc' = [proc EXCEPT ![p] =
                      [me EXCEPT !.idx = me.idx + 1,
                                 !.newInstances = Append(me.newInstances, inst)]]
        /\ UNCHANGED <<files, dirs, tmuxInPath, clock, nextID>>

\* handleRemove, lines 315-326: one turn of the loop.
RemoveScan(p) ==
    LET me == proc[p]
        inst == me.instances[me.idx]
        name == inst.tmuxSession.Name
        asked == IF inst.tmuxSession.present
                 THEN <<GatewayCall("Exists", me.idx, name, "")>> ELSE <<>>
        killed == IF Exists(inst)
                  THEN <<GatewayCall("Kill", me.idx, name, "")>> ELSE <<>>
    IN  /\ me.pc = "rm_loop"
        /\ me.idx <= Len(me.instances)
        /\ IF Matches(inst, me.req.identifier)
           THEN /\ proc' = [proc EXCEPT ![p] =
                      [me EXCEPT !.idx = me.idx + 1, !.found = TRUE,
                                 !.removedTitle = inst.Title,
                                 !.calls = me.calls \o asked \o killed]]
                /\ sessions' = IF Exists(inst) THEN Kill(inst) ELSE sessions
           ELSE /\ proc' = [proc EXCEPT ![p] =
                      [me EXCEPT !.idx = me.idx + 1,
                                 !.newInstances = Append(me.newInstances, inst)]]
                /\ UNCHANGED sessions
        /\ UNCHANGED <<files, dirs, tmuxInPath, clock, nextID>>

\* RemoveScanned, had it saved the instances alone (Storage.Save), without
\* the group tree.
RemoveScannedDropsGroups(p) ==
    LET me == proc[p]
        groupTree == <<>>
    IN  /\ me.pc = "rm_loop"
        /\ me.idx > Len(me.instances)
        /\ IF ~me.found
           THEN /\ proc' = [proc EXCEPT ![p] = Exit(me, 1, "session not found")]
                /\ UNCHANGED clock
           ELSE /\ proc' = [proc EXCEPT ![p] =
                      [me EXCEPT !.pc = "sv_open", !.groupTree = groupTree,
                                 !.json = Marshal(ToStorageData(me.newInstances, groupTree, clock))]]
                /\ clock' = clock + 1
        /\ UNCHANGED <<files, dirs, sessions, tmuxInPath, nextID>>

\* RemoveScanned, had it gone on to save when no instance matched.
RemoveScannedSavesUnfound(p) ==
    LET me == proc[p]
        groupTree == NewGroupTreeWithGroups(me.newInstances, me.groups)
    IN  /\ me.pc = "rm_loop"
        /\ me.idx > Len(me.instances)
        /\ proc' = [proc EXCEPT ![p] =
              [me EXCEPT !.pc = "sv_open", !.groupTree = groupTree,
                         !.json = Marshal(ToStorageData(me.newInstances, groupTree, clock))]]
        /\ clock' = clock + 1
        /\ UNCHANGED <<files, dirs, sessions, tmuxInPath, nextID>>

\* handleRemove, lines 328-336, up to the marshalled snapshot
\* SaveWithGroups is about to write (storage.go lines 86-126).
RemoveScanned(p) ==
    LET me == proc[p]
        groupTree == NewGroupTreeWithGroups(me.newInstances, me.groups)
    IN  /\ me.pc = "rm_loop"
        /\ me.idx > Len(me.instances)
        /\ IF ~me.found
           THEN /\ proc' = [proc EXCEPT ![p] = Exit(me, 1, "session not found")]
                /\ UNCHANGED clock
           ELSE /\ proc' = [proc EXCEPT ![p] =
                      [me EXCEPT !.pc = "sv_open", !.groupTree = groupTree,
                                 !.json = Marshal(ToStorageData(me.newInstances, groupTree, clock))]]
                /\ clock' = clock + 1
        /\ UNCHANGED <<files, dirs, sessions, tmuxInPath, nextID>>


\* --------------------------------------------------- SaveWithGroups on disk

\* A descriptor names the file its inode is linked at now: "tmp", "bak",
\* "path", or "gone" once the inode has no name left.
WriteTo(dir, fd, data) ==
    IF fd \in {"path", "tmp", "bak"}
    THEN [files EXCEPT ![dir][fd] = File(Overlay(@.content, data))]
    ELSE files

\* The prefixes of data a write that fails may have put down.
Partial(data) == {SubSeq(data, 1, k) : k \in 0..(Len(data) - 1)}

\* os.Rename(tmp, path) as the other processes' descriptors see it.
Renamed(q, dir) ==
    IF proc[q].storage # dir THEN proc[q]
    ELSE IF proc[q].fd = "tmp" THEN [proc[q] EXCEPT !.fd = "path"]
    ELSE IF proc[q].fd = "path" THEN [proc[q] EXCEPT !.fd = "gone"]
    ELSE proc[q]

\* The error SaveWithGroups returns, as the handler reports it.
SaveFailed(me, err) == [Exit(me, 1, "failed to save") EXCEPT !.err = err]

\* SaveOpen, had it opened s.path itself instead of the temporary file.
SaveOpenInPlace(p) ==
    LET me == proc[p]
    IN  /\ me.pc = "sv_open"
        /\ \/ /\ files' = [files EXCEPT ![me.storage].path = File(<<>>)]
              /\ proc' = [proc EXCEPT ![p] = [me EXCEPT !.pc = "sv_write", !.fd = "path"]]
           \/ /\ proc' = [proc EXCEPT ![p] = SaveFailed(me, "failed to write temp file")]
              /\ UNCHANGED files
        /\ UNCHANGED <<dirs, sessions, tmuxInPath, clock, nextID>>

\* Step 1, line 139: os.WriteFile opens tmpPath, created or truncated.
SaveOpen(p) ==
    LET me == proc[p]
    IN  /\ me.pc = "sv_open"
        /\ \/ /\ files' = [files EXCEPT ![me.storage].tmp = File(<<>>)]
              /\ proc' = [proc EXCEPT ![p] = [me EXCEPT !.pc = "sv_write", !.fd = "tmp"]]
           \/ /\ proc' = [proc EXCEPT ![p] = SaveFailed(me, "failed to write temp file")]
              /\ UNCHANGED files
        /\ UNCHANGED <<dirs, sessions, tmuxInPath, clock, nextID>>

\* Step 1, line 139: os.WriteFile writes the document and closes.
SaveWrite(p) ==
    LET me == proc[p]
    IN  /\ me.pc = "sv_write"
        /\ \/ /\ files' = WriteTo(me.storage, me.fd, me.json)
              /\ proc' = [proc EXCEPT ![p] = [me EXCEPT !.pc = "sv_stat", !.fd = "none"]]
           \/ \E part \in Partial(me.json) :
                /\ files' = WriteTo(me.storage, me.fd, part)
                /\ proc' = [proc EXCEPT ![p] = SaveFailed(me, "failed to write temp file")]
        /\ UNCHANGED <<dirs, sessions, tmuxInPath, clock, nextID>>

\* Step 2, lines 144-146 and 163: os.Stat(s.path), then copyFile reads it.
SaveStat(p) ==
    LET me == proc[p]
        f == files[me.storage].path
    IN  /\ me.pc = "sv_stat"
        /\ \/ /\ f.exists
              /\ proc' = [proc EXCEPT ![p] =
                    [me EXCEPT !.pc = "bk_open", !.buf = f.content]]
           \/ proc' = [proc EXCEPT ![p] = [me EXCEPT !.pc = "sv_rename"]]
        /\ UNCHANGED <<files, dirs, sessions, tmuxInPath, clock, nextID>>

\* BackupOpen, had the error of copyFile aborted the save.
BackupOpenFailureAborts(p) ==
    LET me == proc[p]
    IN  /\ me.pc = "bk_open"
        /\ \/ /\ files' = [files EXCEPT ![me.storage].bak = File(<<>>)]
              /\ proc' = [proc EXCEPT ![p] = [me EXCEPT !.pc = "bk_write", !.fd = "bak"]]
           \/ /\ proc' = [proc EXCEPT ![p] = SaveFailed(me, "failed to create backup")]
              /\ UNCHANGED files
        /\ UNCHANGED <<dirs, sessions, tmuxInPath, clock, nextID>>

\* Step 2, line 167: copyFile's os.WriteFile opens bakPath.
BackupOpen(p) ==
    LET me == proc[p]
    IN  /\ me.pc = "bk_open"
        /\ \/ /\ files' = [files EXCEPT ![me.storage].bak = File(<<>>)]
              /\ proc' = [proc EXCEPT ![p] = [me EXCEPT !.pc = "bk_write", !.fd = "bak"]]
           \/ /\ proc' = [proc EXCEPT ![p] = [me EXCEPT !.pc = "sv_rename"]]
              /\ UNCHANGED files
        /\ UNCHANGED <<dirs, sessions, tmuxInPath, clock, nextID>>

\* Step 2, line 167: copyFile's os.WriteFile writes the copy; lines 146-150
\* drop its error.
BackupWrite(p) ==
    LET me == proc[p]
    IN  /\ me.pc = "bk_write"
        /\ \E data \in {me.buf} \cup Partial(me.buf) :
             files' = WriteTo(me.storage, me.fd, data)
        /\ proc' = [proc EXCEPT ![p] = [me EXCEPT !.pc = "sv_rename", !.fd = "none"]]
        /\ UNCHANGED <<dirs, sessions, tmuxInPath, clock, nextID>>

\* SaveRename, had it removed s.path before renaming onto it.
SaveRenameRemovesFirst(p) ==
    LET me == proc[p]
        d == me.storage
    IN  /\ me.pc = "sv_rename"
        /\ \/ /\ files[d].tmp.exists
              /\ files' = [files EXCEPT ![d].path = files[d].tmp, ![d].tmp = NoFile]
              /\ proc' = [q \in Procs |->
                    IF q = p
                    THEN Exit(me, 0, IF me.req.cmd = "add" THEN "Added session"
                                     ELSE "Removed session")
                    ELSE Renamed(q, d)]
           \/ /\ proc' = [proc EXCEPT ![p] = SaveFailed(me, "failed to finalize save")]
              /\ files' = [files EXCEPT ![d].path = NoFile]
        /\ UNCHANGED <<dirs, sessions, tmuxInPath, clock, nextID>>

\* Step 3, lines 154-158: os.Rename(tmpPath, s.path), then the handler's
\* last lines.
SaveRename(p) ==
    LET me == proc[p]
        d == me.storage
    IN  /\ me.pc = "sv_rename"
        /\ \/ /\ files[d].tmp.exists
              /\ files' = [files EXCEPT ![d].path = files[d].tmp, ![d].tmp = NoFile]
              /\ proc' = [q \in Procs |->
                    IF q = p
                    THEN Exit(me, 0, IF me.req.cmd = "add" THEN "Added session"
                                     ELSE "Removed session")
                    ELSE Renamed(q, d)]
           \/ /\ proc' = [proc EXCEPT ![p] = SaveFailed(me, "failed to finalize save")]
              /\ UNCHANGED files
        /\ UNCHANGED <<dirs, sessions, tmuxInPath, clock, nextID>>

\* main, lines 42-53, run without a subcommand: the check for tmux, then
\* the terminal interface is started.
StartTUI(p) ==
    LET me == IdleProc
    IN  /\ proc[p].pc \in {"idle", "done"}
        /\ proc' = [proc EXCEPT ![p] =
              IF ~tmuxInPath THEN Exit(me, 1, "tmux not found in PATH")
              ELSE [me EXCEPT !.pc = "tui"]]
        /\ UNCHANGED <<files, dirs, sessions, tmuxInPath, clock, nextID>>

\* main, lines 55-58: p.Run() returns, with an error or without.
QuitTUI(p) ==
    /\ proc[p].pc = "tui"
    /\ \E ok \in BOOLEAN :
         proc' = [proc EXCEPT ![p] =
            IF ok THEN Exit(proc[p], 0, "") ELSE Exit(proc[p], 1, "Error")]
    /\ UNCHANGED <<files, dirs, sessions, tmuxInPath, clock, nextID>>

\* The process dies where it stands (a signal, the machine's owner): no
\* handler of its own runs.
Crash(p) ==
    /\ proc[p].pc \notin {"idle", "done"}
    /\ proc' = [proc EXCEPT ![p] = Exit(proc[p], 137, "killed")]
    /\ UNCHANGED <<files, dirs, sessions, tmuxInPath, clock, nextID>>

\* The session names of the snapshot on disk.
PersistedNames ==
    LET f == files[DefaultDir].path
    IN  IF f.exists /\ Parses(f.content)
        THEN {d.TmuxSession : d \in {Unmarshal(f.content).Instances[i] :
                                        i \in 1..Len(Unmarshal(f.content).Instances)}}
             \ {Empty}
        ELSE {}

\* The operator starts, in the TUI, the session of a listed instance: the
\* host creates a session of that name.
HostStart ==
    /\ \E name \in PersistedNames \ sessions : sessions' = sessions \cup {name}
    /\ UNCHANGED <<files, dirs, tmuxInPath, clock, nextID, proc>>

\* A running process takes its next step, or dies.
Run(p) ==
    \/ LoadWithGroups(p)
    \/ AddLoaded(p)
    \/ ListLoaded(p)
    \/ RemoveLoaded(p)
    \/ RemoveScan(p)
    \/ RemoveScanned(p)
    \/ SaveOpen(p)
    \/ SaveWrite(p)
    \/ SaveStat(p)
    \/ BackupOpen(p)
    \/ BackupWrite(p)
    \/ SaveRename(p)
    \/ Crash(p)

\* One agent-deck process at a time, command after command.
Next == Start(1) \/ StartTUI(1) \/ Run(1) \/ QuitTUI(1) \/ HostStart

Spec == Init /\ [][Next]_vars

\* The same program, one process, on a storage directory that holds the
\* foreign snapshot file.
InitForeign ==
    /\ files = [d \in StorageDirs |->
                  IF d = DefaultDir THEN [NoFiles EXCEPT !.path = ForeignFile]
                  ELSE NoFiles]
    /\ dirs = {}
    /\ sessions = {}
    /\ tmuxInPath = TRUE
    /\ clock = 1
    /\ nextID = 1
    /\ proc = [p \in Procs |-> IdleProc]

SpecForeign == InitForeign /\ [][Next]_vars

\* The same program, one process, on a machine without tmux: no session can
\* be started on the host.
InitNoTmux ==
    /\ \E f \in InitialFiles :
         files = [d \in StorageDirs |-> IF d = DefaultDir THEN f ELSE NoFiles]
    /\ dirs = {}
    /\ sessions = {}
    /\ tmuxInPath = FALSE
    /\ clock = 1
    /\ nextID = 1
    /\ proc = [p \in Procs |-> IdleProc]

NextNoTmux == Start(1) \/ StartTUI(1) \/ Run(1)

SpecNoTmux == InitNoTmux /\ [][NextNoTmux]_vars

\* A command line is run as process p, which has run none yet.
StartOnce(p) == proc[p].pc = "idle" /\ Start(p)

\* Two agent-deck processes side by side on the same storage, one command
\* each.
NextConc == (\E p \in Procs : StartOnce(p) \/ Run(p)) \/ HostStart

SpecConc == Init /\ [][NextConc]_vars

\* =================================================================== claims

Canonical == files[DefaultDir].path
SavePcs == {"sv_open", "sv_write", "sv_stat", "bk_open", "bk_write", "sv_rename"}

\* C1: whatever step is taken (a step of a save, a crash inside or between
\* its steps, anything else), the canonical file afterwards is the file it
\* was before, or the complete document of a save that was at its rename.
C1_CanonicalOldOrNew ==
    [][\A d \in StorageDirs :
          \/ files'[d].path = files[d].path
          \/ \E p \in Procs :
                /\ proc[p].pc = "sv_rename"
                /\ proc[p].storage = d
                /\ Parses(proc[p].json)
                /\ files'[d].path = File(proc[p].json)]_vars

\* C1 witness: a process died inside its write of the temporary file, which
\* holds no complete document, and the canonical file still parses.
C1_Witness ==
    /\ proc[1].msg = "killed"
    /\ files[DefaultDir].tmp.exists
    /\ ~Parses(files[DefaultDir].tmp.content)
    /\ Canonical.exists
    /\ Parses(Canonical.content)

\* C2: a session leaves the host only in a step of a remove whose loop
\* stands at an instance the identifier matches and that holds that session.
C2_OnlyRemoveKills ==
    [][\A name \in sessions \ sessions' :
          \E p \in Procs :
             /\ proc[p].req.cmd = "remove"
             /\ proc[p].pc = "rm_loop"
             /\ proc[p].idx <= Len(proc[p].instances)
             /\ Matches(proc[p].instances[proc[p].idx], proc[p].req.identifier)
             /\ proc[p].instances[proc[p].idx].tmuxSession.Name = name]_vars

\* C2 witness: a remove has passed a matching instance whose session was on
\* the host when it was loaded (its detected status is not error) and is on
\* the host no more.
C2_Witness ==
    /\ proc[1].pc = "rm_loop"
    /\ \E i \in 1..(proc[1].idx - 1) :
          /\ Matches(proc[1].instances[i], proc[1].req.identifier)
          /\ proc[1].instances[i].tmuxSession.present
          /\ proc[1].instances[i].Status # StatusError
          /\ proc[1].instances[i].tmuxSession.Name \notin sessions


\* The fields of two instances other than status and session handle agree.
SameButStatus(a, b) ==
    /\ a.ID = b.ID
    /\ a.Title = b.Title
    /\ a.ProjectPath = b.ProjectPath
    /\ a.GroupPath = b.GroupPath
    /\ a.Command = b.Command
    /\ a.Tool = b.Tool
    /\ a.CreatedAt = b.CreatedAt

\* The session handles of two instances name the same session, or are both nil.
SameSession(a, b) ==
    /\ a.tmuxSession.present = b.tmuxSession.present
    /\ a.tmuxSession.Name = b.tmuxSession.Name

\* C3, as claimed: whatever snapshot a save has marshalled, every load of
\* that document returns its instances field for field (status included),
\* in order, and its groups.
C3_RoundTripOriginal ==
    \A p \in Procs :
       proc[p].pc \in SavePcs =>
          /\ Parses(proc[p].json)
          /\ Unmarshal(proc[p].json).Groups = proc[p].groupTree
          /\ \A loaded \in LoadedInstances(Unmarshal(proc[p].json)) :
                /\ Len(loaded) = Len(proc[p].newInstances)
                /\ \A i \in 1..Len(loaded) :
                      /\ SameButStatus(loaded[i], proc[p].newInstances[i])
                      /\ SameSession(loaded[i], proc[p].newInstances[i])
                      /\ loaded[i].Status = proc[p].newInstances[i].Status

\* C3, amended: for a snapshot whose instances have a group path and no
\* tilde-prefixed project path, every load of the saved document returns the
\* groups and the instances in order, equal field for field, except that the
\* status of an instance with a session is what one detector pass leaves.
C3_RoundTripAmended ==
    \A p \in Procs :
       (/\ proc[p].pc \in SavePcs
        /\ \A i \in 1..Len(proc[p].newInstances) :
              /\ proc[p].newInstances[i].GroupPath # Empty
              /\ ~HasPrefix(proc[p].newInstances[i].ProjectPath, <<"~", "/">>)) =>
          /\ Parses(proc[p].json)
          /\ Unmarshal(proc[p].json).Groups = proc[p].groupTree
          /\ \A loaded \in LoadedInstances(Unmarshal(proc[p].json)) :
                /\ Len(loaded) = Len(proc[p].newInstances)
                /\ \A i \in 1..Len(loaded) :
                      /\ SameButStatus(loaded[i], proc[p].newInstances[i])
                      /\ SameSession(loaded[i], proc[p].newInstances[i])
                      /\ IF proc[p].newInstances[i].tmuxSession.present
                         THEN loaded[i].Status \in UpdateStatus(proc[p].newInstances[i])
                         ELSE loaded[i].Status = proc[p].newInstances[i].Status

\* C3 witness: a save holds a snapshot of an instance without a session and
\* one with a session, with a launch command, and a group.
C3_Witness ==
    /\ proc[1].pc \in SavePcs
    /\ proc[1].groupTree # <<>>
    /\ \E i, j \in 1..Len(proc[1].newInstances) :
          /\ ~proc[1].newInstances[i].tmuxSession.present
          /\ proc[1].newInstances[j].tmuxSession.present
          /\ proc[1].newInstances[j].Command # Empty


\* The identifiers of the instances of the canonical snapshot.
PersistedIDs ==
    IF Canonical.exists /\ Parses(Canonical.content)
    THEN {Unmarshal(Canonical.content).Instances[i].ID :
             i \in 1..Len(Unmarshal(Canonical.content).Instances)}
    ELSE {}

\* C4, as claimed: once two adds issued side by side have both reported
\* success, the canonical snapshot holds the instance of each.
C4_BothMutationsPersisted ==
    (proc[1].msg = "Added session" /\ proc[2].msg = "Added session") =>
        {GenID(1), GenID(2)} \subseteq PersistedIDs

\* C5, as claimed: the list a remove is about to save is the loaded list
\* less exactly one instance.
C5_RemovesExactlyOne ==
    \A p \in Procs :
       (proc[p].req.cmd = "remove" /\ proc[p].pc = "sv_open") =>
           Len(proc[p].newInstances) = Len(proc[p].instances) - 1

\* C6, as claimed: an add that found an instance at its path reports a
\* failure.
C6_DuplicateAddFails ==
    \A p \in Procs : proc[p].msg = "Session already exists" => proc[p].exit # 0

\* The loaded list holds an instance at the path the add resolved.
DuplicatePath(me) ==
    \E i \in 1..Len(me.instances) : me.instances[i].ProjectPath = me.path

\* C6, amended: the step of an add that loaded an instance at its path ends
\* the process with "Session already exists" and exit status 0 (unless the
\* process is killed there); no identifier is drawn, no file and no session
\* changes.
C6_DuplicateAddIsNoOp ==
    [][\A p \in Procs :
          (/\ proc[p].pc = "loaded"
           /\ proc[p].req.cmd = "add"
           /\ proc[p].err = ""
           /\ DuplicatePath(proc[p])
           /\ proc'[p] # proc[p]) =>
             /\ proc'[p].pc = "done"
             /\ \/ proc'[p].exit = 0 /\ proc'[p].msg = "Session already exists"
                \/ proc'[p].msg = "killed"
             /\ UNCHANGED <<files, sessions, nextID, clock>>]_vars

\* C6 witness: an add has ended on the duplicate, and the canonical snapshot
\* holds an instance.
C6_Witness ==
    /\ proc[1].msg = "Session already exists"
    /\ PersistedIDs # {}

\* C7, as claimed: a process started with the profile selector set works on
\* the profile's storage directory.
C7_ProfileIsolation ==
    \A p \in Procs :
       (proc[p].profile # "" /\ proc[p].storage # "") => proc[p].storage = ProfileDir


\* C8: a load that finds no canonical file returns no instance, no group and
\* no error, and leaves every file and directory as it was.
C8_LoadMissingIsEmpty ==
    [][\A p \in Procs :
          (/\ proc[p].pc = "load"
           /\ ~files[proc[p].storage].path.exists
           /\ proc'[p].pc = "loaded") =>
             /\ proc'[p].instances = <<>>
             /\ proc'[p].groups = <<>>
             /\ proc'[p].err = ""
             /\ UNCHANGED <<files, dirs>>]_vars

\* C8 witness: a load has returned, without error, and there is no canonical
\* file.
C8_Witness ==
    /\ proc[1].pc = "loaded"
    /\ proc[1].err = ""
    /\ ~Canonical.exists
    /\ ~files[DefaultDir].bak.exists

LoadErrors == {"failed to unmarshal JSON", "failed to read file"}

\* C9: a load of a canonical file that does not parse returns an error and
\* no instance or group, whatever the backup holds, and leaves the files as
\* they were; the handler that gets a load error ends the process with
\* status 1 (unless it is killed first), no file or session touched.
C9_ParseErrorSurfaces ==
    [][\A p \in Procs :
          /\ (/\ proc[p].pc = "load"
              /\ files[proc[p].storage].path.exists
              /\ ~Parses(files[proc[p].storage].path.content)
              /\ proc'[p].pc = "loaded") =>
                /\ proc'[p].err \in LoadErrors
                /\ proc'[p].instances = <<>>
                /\ proc'[p].groups = <<>>
                /\ UNCHANGED files
          /\ (/\ proc[p].pc = "loaded"
              /\ proc[p].err # ""
              /\ proc'[p] # proc[p]) =>
                /\ proc'[p].pc = "done"
                /\ \/ proc'[p].exit = 1 /\ proc'[p].msg = "failed to load sessions"
                   \/ proc'[p].msg = "killed"
                /\ UNCHANGED <<files, sessions>>]_vars

\* C9 witness: an add's load has returned the parse error while a backup
\* that parses lies beside the canonical file.
C9_Witness ==
    /\ proc[1].pc = "loaded"
    /\ proc[1].req.cmd = "add"
    /\ proc[1].err = "failed to unmarshal JSON"
    /\ files[DefaultDir].bak.exists
    /\ Parses(files[DefaultDir].bak.content)

SaveErrors == {"failed to write temp file", "failed to finalize save"}
Saved == {"Added session", "Removed session"}

\* C10: no step of a save before its rename changes the canonical file, and
\* a save that ends without success (and without the process being killed)
\* ends with status 1 and the error of the write or of the rename, the
\* canonical file as it was.
C10_FailedSaveKeepsCanonical ==
    [][\A p \in Procs :
          (proc[p].pc \in SavePcs /\ proc'[p] # proc[p]) =>
             /\ proc[p].pc # "sv_rename" =>
                   files'[proc[p].storage].path = files[proc[p].storage].path
             /\ (proc'[p].pc = "done" /\ proc'[p].msg \notin Saved \cup {"killed"}) =>
                   /\ proc'[p].exit = 1
                   /\ proc'[p].msg = "failed to save"
                   /\ proc'[p].err \in SaveErrors
                   /\ files'[proc[p].storage].path = files[proc[p].storage].path]_vars

\* C10 witness: a save has ended on a failed rename, a complete canonical
\* file in place and the temporary file left behind.
C10_Witness ==
    /\ proc[1].err = "failed to finalize save"
    /\ proc[1].exit = 1
    /\ Canonical.exists
    /\ Parses(Canonical.content)
    /\ files[DefaultDir].tmp.exists


\* C11: a step of the backup copy (its open or its write, failed or not)
\* never ends the save and touches neither the canonical nor the temporary
\* file: the save goes on to its rename with the same document (unless the
\* process is killed there); and a rename that succeeds ends the process
\* with status 0, the canonical file holding the new document.
C11_BackupFailureNotFatal ==
    [][\A p \in Procs :
          /\ (proc[p].pc \in {"bk_open", "bk_write"} /\ proc'[p] # proc[p]) =>
                \/ proc'[p].msg = "killed"
                \/ /\ proc'[p].pc \in {"bk_write", "sv_rename"}
                   /\ proc[p].pc = "bk_write" => proc'[p].pc = "sv_rename"
                   /\ proc'[p].json = proc[p].json
                   /\ files'[proc[p].storage].path = files[proc[p].storage].path
                   /\ files'[proc[p].storage].tmp = files[proc[p].storage].tmp
          /\ (proc[p].pc = "sv_rename" /\ proc'[p].msg \in Saved) =>
                /\ proc'[p].exit = 0
                /\ files'[proc[p].storage].path = File(proc[p].json)]_vars

\* C11 witness: a command has reported success, the canonical file holds a
\* complete snapshot, and the backup beside it is the cut-short copy a
\* failed backup write left.
C11_Witness ==
    /\ proc[1].msg \in Saved
    /\ proc[1].exit = 0
    /\ Canonical.exists
    /\ Parses(Canonical.content)
    /\ files[DefaultDir].bak.exists
    /\ ~Parses(files[DefaultDir].bak.content)


\* C12, as claimed: every instance a load has returned, and every instance
\* record of a document a save is writing, has one of the four statuses,
\* whatever the persisted file held.
C12_StatusIsEnumerated ==
    \A p \in Procs :
       /\ (proc[p].pc = "loaded" /\ proc[p].err = "") =>
             \A i \in 1..Len(proc[p].instances) :
                proc[p].instances[i].Status \in Statuses
       /\ proc[p].pc \in SavePcs =>
             \A i \in 1..Len(Unmarshal(proc[p].json).Instances) :
                Unmarshal(proc[p].json).Instances[i].Status \in Statuses


\* The group records and the instance records of the canonical snapshot.
PersistedGroups ==
    IF Canonical.exists /\ Parses(Canonical.content)
    THEN Unmarshal(Canonical.content).Groups
    ELSE <<>>
PersistedInstances ==
    IF Canonical.exists /\ Parses(Canonical.content)
    THEN Unmarshal(Canonical.content).Instances
    ELSE <<>>

NoOrphan(f) ==
    LET data == Unmarshal(f.content)
    IN  \A i \in 1..Len(data.Instances) :
           \E j \in 1..Len(data.Groups) :
              data.Groups[j].Path = data.Instances[i].GroupPath

\* C14: whenever a step puts a new canonical snapshot in place, every
\* instance of that snapshot has the group path of a group saved with it.
C14_NoOrphanedInstance ==
    [][\A d \in StorageDirs :
          files'[d].path # files[d].path =>
             /\ Parses(files'[d].path.content)
             /\ NoOrphan(files'[d].path)]_vars

\* C14 witness: an add and then a remove have run, and the snapshot the
\* remove left still holds an instance, with its group.
C14_Witness ==
    /\ proc[1].msg = "Removed session"
    /\ nextID > 1
    /\ Len(PersistedInstances) > 0
    /\ Len(PersistedGroups) > 0


\* C15, as claimed: on a machine without tmux no process has loaded the
\* snapshot, is scanning it for a remove or is saving it, and a process that
\* has ended has ended with status 1.
C15_NoTmuxIsFatal ==
    ~tmuxInPath =>
       \A p \in Procs :
          /\ proc[p].pc \notin {"loaded", "rm_loop"} \cup SavePcs
          /\ proc[p].pc = "done" => proc[p].exit = 1


\* The calls of the log made with operation op for the i-th instance.
CallsOf(calls, op, i) == {k \in 1..Len(calls) : calls[k].op = op /\ calls[k].at = i}

\* C16: a load that returns without error returns one instance per record,
\* in order; for a record with a session name the instance holds that
\* session, exactly one status update was issued for it and its status is
\* what that update leaves; for a record without one the instance holds no
\* session, no status update was issued for it and its status is the
\* persisted one.
C16_OneDetectorPass ==
    [][\A p \in Procs :
          (proc[p].pc = "load" /\ proc'[p].pc = "loaded" /\ proc'[p].err = ""
             /\ files[proc[p].storage].path.exists) =>
             LET records == Unmarshal(files[proc[p].storage].path.content).Instances
                 loaded == proc'[p].instances
             IN  /\ Len(loaded) = Len(records)
                 /\ \A i \in 1..Len(records) :
                       IF records[i].TmuxSession # Empty
                       THEN /\ loaded[i].tmuxSession.present
                            /\ loaded[i].tmuxSession.Name = records[i].TmuxSession
                            /\ Cardinality(CallsOf(proc'[p].calls, "UpdateStatus", i)) = 1
                            /\ loaded[i].Status \in UpdateStatus(loaded[i])
                       ELSE /\ loaded[i].tmuxSession = NoSession
                            /\ CallsOf(proc'[p].calls, "UpdateStatus", i) = {}
                            /\ loaded[i].Status = records[i].Status]_vars

\* C16 witness: a load has returned an instance without a session and an
\* instance with a session that the host has.
C16_Witness ==
    /\ proc[1].pc = "loaded"
    /\ proc[1].err = ""
    /\ \E i, j \in 1..Len(proc[1].instances) :
          /\ ~proc[1].instances[i].tmuxSession.present
          /\ proc[1].instances[j].tmuxSession.present
          /\ proc[1].instances[j].Status # StatusError


\* The status a prior-status string of the tmux package stands for.
StatusNamed(previous) ==
    CASE previous = "active" -> StatusRunning
      [] previous = "waiting" -> StatusWaiting
      [] previous = "idle" -> StatusIdle
      [] previous = "error" -> StatusError
      [] OTHER -> UnsetStatus

C18_LegacyGroupPath ==
    [][\A p \in Procs :
          (proc[p].pc = "load" /\ proc'[p].pc = "loaded" /\ proc'[p].err = ""
             /\ files[proc[p].storage].path.exists) =>
             LET records == Unmarshal(files[proc[p].storage].path.content).Instances
                 loaded == proc'[p].instances
             IN  /\ Len(loaded) = Len(records)
                 /\ \A i \in 1..Len(records) :
                       IF records[i].GroupPath = Empty
                       THEN loaded[i].GroupPath = Base(Dir(records[i].ProjectPath))
                       ELSE loaded[i].GroupPath = records[i].GroupPath]_vars

\* C18 witness: a load has returned the instance of the legacy record, which
\* has no group path on disk, with the group path "~".
C18_Witness ==
    /\ proc[1].pc = "loaded"
    /\ proc[1].err = ""
    /\ Len(PersistedInstances) > 0
    /\ PersistedInstances[1].GroupPath = Empty
    /\ Len(proc[1].instances) > 0
    /\ proc[1].instances[1].GroupPath = <<"~">>


\* C19, as claimed: in the calls a process has issued, every kill, mouse-mode
\* toggle and status update on a session comes after an existence check on
\* that session.
C19_ExistsCheckedFirst ==
    \A p \in Procs :
       \A k \in 1..Len(proc[p].calls) :
          proc[p].calls[k].op \in {"Kill", "EnableMouseMode", "UpdateStatus"} =>
             \E j \in 1..(k - 1) :
                /\ proc[p].calls[j].op = "Exists"
                /\ proc[p].calls[j].name = proc[p].calls[k].name


\* C20: no two instance records of the canonical snapshot have the same
\* project path.
C20_NoDuplicatePaths ==
    LET records == PersistedInstances
    IN  \A i, j \in 1..Len(records) :
           records[i].ProjectPath = records[j].ProjectPath => i = j

\* C20 witness: on storage that was empty at first, an add of a path whose
\* instance the snapshot holds has ended on the duplicate, the snapshot
\* holding that one instance.
C20_Witness ==
    /\ proc[1].msg = "Session already exists"
    /\ PersistedIDs = {GenID(1)}
    /\ ~files[DefaultDir].bak.exists


\* C21, as claimed: when a remove ends, however it ends, each instance it
\* had loaded whose session it killed is gone from the canonical snapshot,
\* and each one with a session that is gone from the snapshot had its
\* session's existence checked (and the session killed if the host had it).
C21_RemoveAllOrNothing ==
    [][\A p \in Procs :
          (proc[p].req.cmd = "remove" /\ proc[p].pc # "done" /\ proc'[p].pc = "done") =>
             LET left == PersistedIDs'
             IN  \A i \in 1..Len(proc[p].instances) :
                    /\ CallsOf(proc[p].calls, "Kill", i) # {} =>
                          proc[p].instances[i].ID \notin left
                    /\ (proc[p].instances[i].tmuxSession.present
                          /\ proc[p].instances[i].ID \notin left) =>
                          CallsOf(proc[p].calls, "Exists", i) # {}]_vars


\* C22, as claimed: with two processes saving side by side, whatever step is
\* taken, the canonical file afterwards is the file it was before or the
\* complete document of one of the saves under way.
C22_ConcurrentSaveIsComplete ==
    [][files'[DefaultDir].path # files[DefaultDir].path =>
          \E p \in Procs :
             /\ proc[p].pc \in SavePcs
             /\ proc[p].storage = DefaultDir
             /\ files'[DefaultDir].path = File(proc[p].json)]_vars


\* No instance of the list is one the identifier names.
NoMatch(instances, identifier) ==
    \A i \in 1..Len(instances) : ~Matches(instances[i], identifier)

\* C23: every step of a remove that has loaded, without error, a list in
\* which no instance matches the identifier leaves every file and every
\* session as it was, issues no kill, and the remove ends with status 1 and
\* "session not found" (unless the process is killed first).
C23_RemoveNoMatchNoEffect ==
    [][\A p \in Procs :
          (/\ proc[p].req.cmd = "remove"
           /\ proc[p].pc \in {"loaded", "rm_loop"}
           /\ proc[p].err = ""
           /\ NoMatch(proc[p].instances, proc[p].req.identifier)
           /\ proc'[p] # proc[p]) =>
             /\ UNCHANGED <<files, sessions>>
             /\ proc'[p].pc \in {"rm_loop", "done"}
             /\ \A k \in 1..Len(proc'[p].calls) : proc'[p].calls[k].op # "Kill"
             /\ proc'[p].pc = "done" =>
                   \/ proc'[p].exit = 1 /\ proc'[p].msg = "session not found"
                   \/ proc'[p].msg = "killed"]_vars

\* C23 witness: a remove has ended on "session not found" while the
\* snapshot holds an instance whose session is on the host.
C23_Witness ==
    /\ proc[1].msg = "session not found"
    /\ proc[1].exit = 1
    /\ PersistedIDs # {}
    /\ sessions # {}

\* C24: no step of a list (its start, its load, its printing, its death)
\* changes the canonical, the temporary or the backup file, or takes a
\* session off the host.
C24_ListIsReadOnly ==
    [][\A p \in Procs :
          ((proc[p].req.cmd = "list" \/ proc'[p].req.cmd = "list")
             /\ proc'[p] # proc[p]) =>
             /\ files' = files
             /\ sessions \subseteq sessions']_vars

\* C24 witness: a list has printed its table, the snapshot holding an
\* instance whose session is on the host.
C24_Witness ==
    /\ proc[1].msg = "Total"
    /\ proc[1].exit = 0
    /\ Canonical.exists
    /\ PersistedNames \cap sessions # {}


====
